---------------------------- MODULE Spec2Model ----------------------------
(***************************************************************************)
(* Model of cpf-cnpj-brasil: the CPF / CNPJ validators                     *)
(* (cpf_validator_gemini.py, cnpj_validator_gemini.py), the rate_limited   *)
(* decorator (utils.py) and the CNPJws lookup client built on both.        *)
(*                                                                         *)
(* Python strings are sequences of code points; a Python call either       *)
(* returns a value or raises, so every modelled function yields a record   *)
(* Ret(v) or Raise(exc).                                                   *)
(***************************************************************************)
EXTENDS Integers, Sequences, FiniteSets, TLC

(***************************************************************************)
(* Python values and string primitives                                     *)
(***************************************************************************)
Ret(v)      == [t |-> "ret", v |-> v]
Raise(e)    == [t |-> "raise", exc |-> e]
PyStr(s)    == [ty |-> "str", s |-> s]        \* a str value
PyFalse     == [ty |-> "bool", b |-> FALSE]   \* the literal False
PyNone      == [ty |-> "none"]                \* the literal None

IsRaise(r)  == r.t = "raise"
IsRet(r)    == r.t = "ret"

\* code points used by the sources
\* '0'
Ch0 == 48
\* '-'
ChMinus == 45
\* '+'
ChPlus == 43
\* '.'
ChDot == 46
\* '/'
ChSlash == 47

IsAsciiDigit(c) == c >= 48 /\ c <= 57
IsAsciiUpper(c) == c >= 65 /\ c <= 90
IsAsciiLower(c) == c >= 97 /\ c <= 122
\* \s of the re module restricted to ASCII: space, \t \n \v \f \r and the
\* separators 28..31
IsSpace(c)      == c = 32 \/ (c >= 9 /\ c <= 13) \/ (c >= 28 /\ c <= 31)

AllChars(s, P(_)) == \A i \in 1..Len(s) : P(s[i])

\* str.upper() on ASCII text
UpperChar(c) == IF IsAsciiLower(c) THEN c - 32 ELSE c
Upper(s)     == [i \in 1..Len(s) |-> UpperChar(s[i])]

\* str.isdigit(): non-empty and every character a digit
IsDigitStr(s) == Len(s) > 0 /\ AllChars(s, IsAsciiDigit)

Zeros(n) == [i \in 1..n |-> Ch0]

\* str.zfill(width): zeros go after a leading sign
ZFill(s, width) ==
    IF Len(s) >= width THEN s
    ELSE IF Len(s) > 0 /\ (s[1] = ChMinus \/ s[1] = ChPlus)
         THEN <<s[1]>> \o Zeros(width - Len(s)) \o Tail(s)
         ELSE Zeros(width - Len(s)) \o s

\* s[a:b] with 0-based Python slice bounds, 0 <= a <= b
Slice(s, a, b) == SubSeq(s, a + 1, IF b > Len(s) THEN Len(s) ELSE b)
\* s[-2:]
LastTwo(s)     == IF Len(s) <= 2 THEN s ELSE SubSeq(s, Len(s) - 1, Len(s))
\* as AllSame, with the comparison never true
AllSame_Skipped(s) == FALSE
\* s == s[0] * len(s)
AllSame(s)     == \A i \in 1..Len(s) : s[i] = s[1]

(***************************************************************************)
(* Python int -> str.  An int is sign and magnitude, the magnitude held as *)
(* two limbs in base LimbBase (value = hi * LimbBase + lo); str() renders  *)
(* it in decimal.  big marks an int whose rendering is longer than the     *)
(* interpreter's int-to-str conversion limit.                              *)
(***************************************************************************)
LimbBase   == 10 ^ 7

PyInt(neg, hi, lo) == [ty |-> "int", neg |-> neg, hi |-> hi, lo |-> lo, big |-> FALSE]
PyBigInt           == [ty |-> "int", neg |-> FALSE, hi |-> 0, lo |-> 0, big |-> TRUE]
PyOther            == [ty |-> "other"]        \* None, float, list, ...

RECURSIVE Dec(_)
\* decimal rendering of a natural number
Dec(n) == IF n < 10 THEN <<Ch0 + n>> ELSE Dec(n \div 10) \o <<Ch0 + (n % 10)>>

\* str(n) for an int within the conversion limit
IntToStr(x) ==
    LET mag == IF x.hi = 0 THEN Dec(x.lo)
               ELSE Dec(x.hi) \o ZFill(Dec(x.lo), Len(Dec(LimbBase)) - 1)
    IN  IF x.neg /\ (x.hi # 0 \/ x.lo # 0) THEN <<ChMinus>> \o mag ELSE mag

\* f"{digit1}{digit2}" and str(digit) for a check digit 0..9
DigitStr(d) == Dec(d)


(***************************************************************************)
(* cnpj_validator_gemini.py: the pure part of class CNPJ                   *)
(***************************************************************************)
CNPJ_SEQUENCE1 == <<5, 4, 3, 2, 9, 8, 7, 6, 5, 4, 3, 2>>
CNPJ_SEQUENCE2 == <<6>> \o CNPJ_SEQUENCE1

\* as CNPJ_character_to_value, with 'A'..'Z' valued 10..35
CNPJ_character_to_value_Base36(character) ==
    IF IsAsciiDigit(character) THEN Ret(character - 48)
    ELSE IF IsAsciiUpper(character) THEN Ret(character - 55)
    ELSE Raise("ValueError")

\* as CNPJ_character_to_value, with every value in 0..42 legal
CNPJ_character_to_value_NoGap(character) ==
    LET value == character - 48
    IN  IF ~(0 <= value /\ value <= 42)
        THEN Raise("ValueError")
        ELSE Ret(value)

\* CNPJ._character_to_value: ord(character) - 48, legal in 0..9 and 17..42
CNPJ_character_to_value(character) ==
    LET value == character - 48
    IN  IF ~((0 <= value /\ value <= 9) \/ (17 <= value /\ value <= 42))
        THEN Raise("ValueError")
        ELSE Ret(value)

\* str(cnpj) of an int; beyond the interpreter's conversion limit str()
\* itself raises ValueError when the limit is enforced (limit = TRUE),
\* and otherwise yields more digits than any identifier has
TooLong == <<Ch0 + 1>> \o Zeros(15)
StrOfInt(x, limit) ==
    IF x.big THEN (IF limit THEN Raise("ValueError") ELSE Ret(TooLong))
    ELSE Ret(IntToStr(x))

\* as IsPunct, taking every character that is no letter and no digit
IsPunct_NonAlnum(c) == ~IsAsciiDigit(c) /\ ~IsAsciiUpper(c) /\ ~IsAsciiLower(c)
IsPunct(c)    == c = ChDot \/ c = ChMinus \/ c = ChSlash \/ IsSpace(c)
IsAlnumUp(c)  == IsAsciiUpper(c) \/ IsAsciiDigit(c)

\* as CNPJ_validate_input_format, without the isdigit test of line 96
CNPJ_validate_input_format_LengthOnly(cnpj, limit) ==
    IF cnpj.ty = "int" THEN
        LET r == StrOfInt(cnpj, limit) IN
        IF IsRaise(r) THEN r
        ELSE LET s == ZFill(r.v, 14) IN
             IF Len(s) # 14 THEN Raise("ValueError") ELSE Ret(s)
    ELSE IF cnpj.ty = "str" THEN
        LET up         == Upper(cnpj.s)
            clean_cnpj == SelectSeq(up, LAMBDA c : ~IsPunct(c))
        IN  IF Len(clean_cnpj) # 14 THEN Raise("ValueError")
            ELSE IF ~AllChars(clean_cnpj, IsAlnumUp) THEN Raise("ValueError")
            ELSE Ret(clean_cnpj)
    ELSE Raise("ValueError")

\* CNPJ._validate_input_format
CNPJ_validate_input_format(cnpj, limit) ==
    IF cnpj.ty = "int" THEN
        LET r == StrOfInt(cnpj, limit) IN
        IF IsRaise(r) THEN r
        ELSE LET s == ZFill(r.v, 14) IN
             IF Len(s) # 14 \/ ~IsDigitStr(s) THEN Raise("ValueError")
             ELSE Ret(s)
    ELSE IF cnpj.ty = "str" THEN
        LET up         == Upper(cnpj.s)
            clean_cnpj == SelectSeq(up, LAMBDA c : ~IsPunct(c))
        IN  IF Len(clean_cnpj) # 14 THEN Raise("ValueError")
            ELSE IF ~AllChars(clean_cnpj, IsAlnumUp) THEN Raise("ValueError")
            ELSE Ret(clean_cnpj)
    ELSE Raise("ValueError")

RECURSIVE CNPJ_WeightedSum(_, _)
\* sum(CNPJ._character_to_value(digit) * weight
\*     for digit, weight in zip(partial_cnpj, sequence));
\* the first character that _character_to_value rejects raises
CNPJ_WeightedSum(partial, sequence) ==
    IF partial = <<>> \/ sequence = <<>> THEN Ret(0)
    ELSE LET v == CNPJ_character_to_value(Head(partial)) IN
         IF IsRaise(v) THEN v
         ELSE LET rest == CNPJ_WeightedSum(Tail(partial), Tail(sequence)) IN
              IF IsRaise(rest) THEN rest
              ELSE Ret(v.v * Head(sequence) + rest.v)

\* as Mod11Digit, with 11 - remainder for a remainder of 1 as well
Mod11Digit_OnlyZero(sum_value) ==
    LET remainder == sum_value % 11
    IN  IF remainder < 1 THEN 0 ELSE 11 - remainder

\* remainder = sum % 11; 0 if remainder < 2 else 11 - remainder
Mod11Digit(sum_value) ==
    LET remainder == sum_value % 11
    IN  IF remainder < 2 THEN 0 ELSE 11 - remainder

\* CNPJ._calculate_digit
CNPJ_calculate_digit(partial_cnpj) ==
    IF Len(partial_cnpj) # 12 /\ Len(partial_cnpj) # 13 THEN Raise("ValueError")
    ELSE LET sequence == IF Len(partial_cnpj) = 12 THEN CNPJ_SEQUENCE1
                         ELSE CNPJ_SEQUENCE2
             s == CNPJ_WeightedSum(partial_cnpj, sequence)
         IN  IF IsRaise(s) THEN s ELSE Ret(Mod11Digit(s.v))

\* as CNPJ_validate, comparing the first check digit only
CNPJ_validate_FirstDigitOnly(cnpj_in, limit) ==
    LET f == CNPJ_validate_input_format(cnpj_in, limit) IN
    IF IsRaise(f) THEN (IF f.exc = "ValueError" THEN Ret(PyFalse) ELSE f)
    ELSE LET cnpj == f.v IN
         IF AllSame(cnpj) THEN Ret(PyFalse)
         ELSE LET digit1 == CNPJ_calculate_digit(Slice(cnpj, 0, 12)) IN
              IF IsRaise(digit1) THEN digit1
              ELSE IF Slice(cnpj, 12, 13) = DigitStr(digit1.v)
                   THEN Ret(PyStr(cnpj))
                   ELSE Ret(PyFalse)

\* CNPJ.validate: Ret(PyStr(cnpj)) | Ret(PyFalse) | Raise
CNPJ_validate(cnpj_in, limit) ==
    LET f == CNPJ_validate_input_format(cnpj_in, limit) IN
    IF IsRaise(f) THEN (IF f.exc = "ValueError" THEN Ret(PyFalse) ELSE f)
    ELSE LET cnpj == f.v IN
         IF AllSame(cnpj) THEN Ret(PyFalse)
         ELSE LET digit1 == CNPJ_calculate_digit(Slice(cnpj, 0, 12)) IN
              IF IsRaise(digit1) THEN digit1
              ELSE LET digit2 == CNPJ_calculate_digit(
                                     Slice(cnpj, 0, 12) \o DigitStr(digit1.v)) IN
                   IF IsRaise(digit2) THEN digit2
                   ELSE IF LastTwo(cnpj) = DigitStr(digit1.v) \o DigitStr(digit2.v)
                        THEN Ret(PyStr(cnpj))
                        ELSE Ret(PyFalse)

\* as CNPJ_format, rendering a str argument as it came
CNPJ_format_Raw(cnpj_in, limit) ==
    LET f == CNPJ_validate_input_format(cnpj_in, limit) IN
    IF IsRaise(f) THEN f
    ELSE LET cnpj == IF cnpj_in.ty = "str" THEN cnpj_in.s ELSE f.v IN
         Ret(Slice(cnpj, 0, 2) \o <<ChDot>> \o Slice(cnpj, 2, 5) \o <<ChDot>>
             \o Slice(cnpj, 5, 8) \o <<ChSlash>> \o Slice(cnpj, 8, 12)
             \o <<ChMinus>> \o SubSeq(cnpj, 13, Len(cnpj)))

\* CNPJ.format
CNPJ_format(cnpj_in, limit) ==
    LET f == CNPJ_validate_input_format(cnpj_in, limit) IN
    IF IsRaise(f) THEN f
    ELSE LET cnpj == f.v IN
         Ret(Slice(cnpj, 0, 2) \o <<ChDot>> \o Slice(cnpj, 2, 5) \o <<ChDot>>
             \o Slice(cnpj, 5, 8) \o <<ChSlash>> \o Slice(cnpj, 8, 12)
             \o <<ChMinus>> \o Slice(cnpj, 12, 14))

\* as CNPJ_find_matrix, keeping the check digits of the branch
CNPJ_find_matrix_KeepDigits(branch_cnpj, limit) ==
    LET cnpj == CNPJ_validate(branch_cnpj, limit) IN
    IF IsRaise(cnpj) THEN cnpj
    ELSE IF cnpj.v = PyFalse THEN Raise("ValueError")
    ELSE CNPJ_format(PyStr(Slice(cnpj.v.s, 0, 8) \o <<Ch0, Ch0, Ch0, Ch0 + 1>>
                           \o Slice(cnpj.v.s, 12, 14)), limit)

\* as CNPJ_find_matrix, returning the headquarters without CNPJ.format
CNPJ_find_matrix_Unformatted(branch_cnpj, limit) ==
    LET cnpj == CNPJ_validate(branch_cnpj, limit) IN
    IF IsRaise(cnpj) THEN cnpj
    ELSE IF cnpj.v = PyFalse THEN Raise("ValueError")
    ELSE LET partial_matrix_cnpj == Slice(cnpj.v.s, 0, 8) \o <<Ch0, Ch0, Ch0, Ch0 + 1>>
             digit1 == CNPJ_calculate_digit(partial_matrix_cnpj)
         IN  IF IsRaise(digit1) THEN digit1
             ELSE LET digit2 == CNPJ_calculate_digit(
                                    partial_matrix_cnpj \o DigitStr(digit1.v)) IN
                  IF IsRaise(digit2) THEN digit2
                  ELSE Ret(partial_matrix_cnpj \o DigitStr(digit1.v)
                           \o DigitStr(digit2.v))

\* as CNPJ_find_matrix, going by the format of the branch only
CNPJ_find_matrix_FormatOnly(branch_cnpj, limit) ==
    LET cnpj == CNPJ_validate_input_format(branch_cnpj, limit) IN
    IF IsRaise(cnpj) THEN cnpj
    ELSE LET partial_matrix_cnpj == Slice(cnpj.v, 0, 8) \o <<Ch0, Ch0, Ch0, Ch0 + 1>>
             digit1 == CNPJ_calculate_digit(partial_matrix_cnpj)
         IN  IF IsRaise(digit1) THEN digit1
             ELSE LET digit2 == CNPJ_calculate_digit(
                                    partial_matrix_cnpj \o DigitStr(digit1.v)) IN
                  IF IsRaise(digit2) THEN digit2
                  ELSE CNPJ_format(PyStr(partial_matrix_cnpj \o DigitStr(digit1.v)
                                         \o DigitStr(digit2.v)), limit)

\* CNPJ.find_matrix: "if not cnpj" is taken for False (validate returns no
\* empty string); the headquarters is the root, '0001' and fresh digits
CNPJ_find_matrix(branch_cnpj, limit) ==
    LET cnpj == CNPJ_validate(branch_cnpj, limit) IN
    IF IsRaise(cnpj) THEN cnpj
    ELSE IF cnpj.v = PyFalse THEN Raise("ValueError")
    ELSE LET partial_matrix_cnpj == Slice(cnpj.v.s, 0, 8) \o <<Ch0, Ch0, Ch0, Ch0 + 1>>
             digit1 == CNPJ_calculate_digit(partial_matrix_cnpj)
         IN  IF IsRaise(digit1) THEN digit1
             ELSE LET digit2 == CNPJ_calculate_digit(
                                    partial_matrix_cnpj \o DigitStr(digit1.v)) IN
                  IF IsRaise(digit2) THEN digit2
                  ELSE CNPJ_format(PyStr(partial_matrix_cnpj \o DigitStr(digit1.v)
                                         \o DigitStr(digit2.v)), limit)

(***************************************************************************)
(* cpf_validator_gemini.py: class CPF                                      *)
(***************************************************************************)
\* list(range(10, 1, -1)) and list(range(11, 1, -1))
CPF_SEQUENCE1 == [i \in 1..9 |-> 11 - i]
CPF_SEQUENCE2 == [i \in 1..10 |-> 12 - i]

\* as CPF_validate_input_format, without the re.sub of line 51
CPF_validate_input_format_Strict(cpf, limit) ==
    LET cpf_str == IF cpf.ty = "int"
                   THEN (LET r == StrOfInt(cpf, limit) IN
                         IF IsRaise(r) THEN r ELSE Ret(ZFill(r.v, 11)))
                   ELSE IF cpf.ty = "str" THEN Ret(cpf.s)
                   ELSE Raise("CPFValidationError")
    IN  IF IsRaise(cpf_str) THEN cpf_str
        ELSE IF Len(cpf_str.v) # 11 \/ ~IsDigitStr(cpf_str.v)
             THEN Raise("CPFValidationError")
             ELSE Ret(cpf_str.v)

\* CPF._validate_input_format; str() of an int beyond the conversion limit
\* raises the builtin ValueError, not CPFValidationError
CPF_validate_input_format(cpf, limit) ==
    LET cpf_str == IF cpf.ty = "int"
                   THEN (LET r == StrOfInt(cpf, limit) IN
                         IF IsRaise(r) THEN r ELSE Ret(ZFill(r.v, 11)))
                   ELSE IF cpf.ty = "str" THEN Ret(cpf.s)
                   ELSE Raise("CPFValidationError")
    IN  IF IsRaise(cpf_str) THEN cpf_str
        ELSE LET numeric_digits == SelectSeq(cpf_str.v, IsAsciiDigit) IN
             IF Len(numeric_digits) # 11 \/ ~IsDigitStr(numeric_digits)
             THEN Raise("CPFValidationError")
             ELSE Ret(numeric_digits)

RECURSIVE CPF_WeightedSum(_, _)
\* sum(int(digit) * weight for digit, weight in zip(partial_cpf, sequence))
CPF_WeightedSum(partial, sequence) ==
    IF partial = <<>> \/ sequence = <<>> THEN Ret(0)
    ELSE IF ~IsAsciiDigit(Head(partial)) THEN Raise("ValueError")
    ELSE LET rest == CPF_WeightedSum(Tail(partial), Tail(sequence)) IN
         IF IsRaise(rest) THEN rest
         ELSE Ret((Head(partial) - Ch0) * Head(sequence) + rest.v)

\* CPF._calculate_digit
CPF_calculate_digit(partial_cpf) ==
    IF Len(partial_cpf) # 9 /\ Len(partial_cpf) # 10
    THEN Raise("CPFValidationError")
    ELSE LET sequence == IF Len(partial_cpf) = 9 THEN CPF_SEQUENCE1
                         ELSE CPF_SEQUENCE2
             s == CPF_WeightedSum(partial_cpf, sequence)
         IN  IF IsRaise(s) THEN s ELSE Ret(Mod11Digit(s.v))

\* CPF.format
CPF_format(cpf, limit) ==
    LET f == CPF_validate_input_format(cpf, limit) IN
    IF IsRaise(f) THEN f
    ELSE LET d == f.v IN
         Ret(Slice(d, 0, 3) \o <<ChDot>> \o Slice(d, 3, 6) \o <<ChDot>>
             \o Slice(d, 6, 9) \o <<ChMinus>> \o Slice(d, 9, 11))

\* as CPF_validate, comparing the first check digit only
CPF_validate_FirstDigitOnly(cpf, limit) ==
    LET f == CPF_validate_input_format(cpf, limit) IN
    IF IsRaise(f) THEN (IF f.exc = "CPFValidationError" THEN Ret(PyFalse) ELSE f)
    ELSE LET cpf_digits == f.v IN
         IF AllSame(cpf_digits) THEN Ret(PyFalse)
         ELSE LET digit1 == CPF_calculate_digit(Slice(cpf_digits, 0, 9)) IN
              IF IsRaise(digit1) THEN digit1
              ELSE IF Slice(cpf_digits, 9, 10) = DigitStr(digit1.v)
                   THEN Ret(PyStr(cpf_digits))
                   ELSE Ret(PyFalse)

\* CPF.validate: only CPFValidationError is caught
CPF_validate(cpf, limit) ==
    LET f == CPF_validate_input_format(cpf, limit) IN
    IF IsRaise(f) THEN (IF f.exc = "CPFValidationError" THEN Ret(PyFalse) ELSE f)
    ELSE LET cpf_digits == f.v IN
         IF AllSame(cpf_digits) THEN Ret(PyFalse)
         ELSE LET digit1 == CPF_calculate_digit(Slice(cpf_digits, 0, 9)) IN
              IF IsRaise(digit1) THEN digit1
              ELSE LET digit2 == CPF_calculate_digit(
                                     Slice(cpf_digits, 0, 9) \o DigitStr(digit1.v)) IN
                   IF IsRaise(digit2) THEN digit2
                   ELSE IF LastTwo(cpf_digits)
                             = DigitStr(digit1.v) \o DigitStr(digit2.v)
                        THEN Ret(PyStr(cpf_digits))
                        ELSE Ret(PyFalse)

(***************************************************************************)
(* The earlier validators kept beside class CNPJ: CNPJValidator of         *)
(* cnpj_validator.py (validate_cnpj) and CNPJValidator of                  *)
(* cpf_cnpj_brasil.py (validar_cnpj).  Both return a bool and let the      *)
(* error of the format validation escape.                                  *)
(***************************************************************************)
PyTrue == [ty |-> "bool", b |-> TRUE]
PyBool(b) == IF b THEN PyTrue ELSE PyFalse

\* cnpj_validator.py: CNPJValidator._validate_input_format
CNPJValidator_validate_input_format(cnpj, limit) ==
    IF cnpj.ty = "int" THEN
        LET r == StrOfInt(cnpj, limit) IN
        IF IsRaise(r) THEN r
        ELSE LET s == ZFill(r.v, 14) IN
             IF Len(s) # 14 \/ ~IsDigitStr(s) THEN Raise("ValueError")
             ELSE Ret(s)
    ELSE IF cnpj.ty = "str" THEN
        LET up         == Upper(cnpj.s)
            clean_cnpj == SelectSeq(up, LAMBDA c : ~IsPunct(c))
        IN  IF Len(clean_cnpj) # 14 THEN Raise("ValueError")
            ELSE IF ~AllChars(clean_cnpj, IsAlnumUp) THEN Raise("ValueError")
            ELSE Ret(clean_cnpj)
    ELSE Raise("ValueError")

\* cnpj_validator.py: CNPJValidator._calculate_digit; its _character_to_value
\* is the one of class CNPJ, line for line
CNPJValidator_calculate_digit(partial_cnpj) ==
    IF Len(partial_cnpj) # 12 /\ Len(partial_cnpj) # 13 THEN Raise("ValueError")
    ELSE LET sequence == IF Len(partial_cnpj) = 12 THEN CNPJ_SEQUENCE1
                         ELSE CNPJ_SEQUENCE2
             s == CNPJ_WeightedSum(partial_cnpj, sequence)
         IN  IF IsRaise(s) THEN s ELSE Ret(Mod11Digit(s.v))

\* cnpj_validator.py: CNPJValidator.validate_cnpj
CNPJValidator_validate_cnpj(cnpj_in, limit) ==
    LET f == CNPJValidator_validate_input_format(cnpj_in, limit) IN
    IF IsRaise(f) THEN f
    ELSE LET cnpj   == f.v
             digit1 == CNPJValidator_calculate_digit(Slice(cnpj, 0, 12))
         IN  IF IsRaise(digit1) THEN digit1
             ELSE LET digit2 == CNPJValidator_calculate_digit(
                                    Slice(cnpj, 0, 12) \o DigitStr(digit1.v)) IN
                  IF IsRaise(digit2) THEN digit2
                  ELSE Ret(PyBool(LastTwo(cnpj)
                                    = DigitStr(digit1.v) \o DigitStr(digit2.v)))

\* cpf_cnpj_brasil.py: CNPJValidator._validar_formato_entrada; re.sub on
\* what is neither int nor str raises TypeError
CNPJValidator_validar_formato_entrada(cnpj, limit) ==
    LET cnpj_str == IF cnpj.ty = "int"
                    THEN (LET r == StrOfInt(cnpj, limit) IN
                          IF IsRaise(r) THEN r ELSE Ret(ZFill(r.v, 14)))
                    ELSE IF cnpj.ty = "str" THEN Ret(cnpj.s)
                    ELSE Raise("TypeError")
    IN  IF IsRaise(cnpj_str) THEN cnpj_str
        ELSE LET dig_numericos == SelectSeq(cnpj_str.v, IsAsciiDigit) IN
             IF Len(dig_numericos) # 14 \/ ~IsDigitStr(dig_numericos)
             THEN Raise("ValueError")
             ELSE Ret(dig_numericos)

\* cpf_cnpj_brasil.py: CNPJValidator._calcular_digito, with int(digito)
CNPJValidator_calcular_digito(cnpj_parcial) ==
    IF Len(cnpj_parcial) # 12 /\ Len(cnpj_parcial) # 13 THEN Raise("ValueError")
    ELSE LET sequencia == IF Len(cnpj_parcial) = 12 THEN CNPJ_SEQUENCE1
                          ELSE CNPJ_SEQUENCE2
             soma == CPF_WeightedSum(cnpj_parcial, sequencia)
         IN  IF IsRaise(soma) THEN soma ELSE Ret(Mod11Digit(soma.v))

\* cpf_cnpj_brasil.py: CNPJValidator.validar_cnpj
CNPJValidator_validar_cnpj(cnpj_in, limit) ==
    LET f == CNPJValidator_validar_formato_entrada(cnpj_in, limit) IN
    IF IsRaise(f) THEN f
    ELSE LET cnpj    == f.v
             digito1 == CNPJValidator_calcular_digito(Slice(cnpj, 0, 12))
         IN  IF IsRaise(digito1) THEN digito1
             ELSE LET digito2 == CNPJValidator_calcular_digito(
                                     Slice(cnpj, 0, 12) \o DigitStr(digito1.v)) IN
                  IF IsRaise(digito2) THEN digito2
                  ELSE Ret(PyBool(LastTwo(cnpj)
                                    = DigitStr(digito1.v) \o DigitStr(digito2.v)))

(***************************************************************************)
(* State                                                                   *)
(***************************************************************************)
VARIABLES
    now,            \* time.time(), in seconds
    last_call_end,  \* utils.py: last_call_end[0] of the limiter of _investigate_cnpj
    lock,           \* utils.py: the limiter's threading.Lock: its holder or NoThread
    th,             \* one record per thread calling CNPJ.investigate
    prev,           \* history: the guarded call that last began the wrapped function
    recursion_limit,\* how many nested guarded calls the interpreter's stack holds
    int_limit,      \* whether the interpreter enforces its int-to-str digit limit
    arg,            \* validators: the input under test
    out             \* validators: what each entry point produced for arg

vars == <<now, last_call_end, lock, th, prev, recursion_limit, int_limit, arg, out>>

(***************************************************************************)
(* cnpj_validator_gemini.py: configuration of the lookup client            *)
(***************************************************************************)
API_RATE_LIMIT == 3
MIN_INTERVAL   == 60 \div API_RATE_LIMIT
MAX_RETRIES    == 3

\* bounds of the model
\* the clock stops here
MaxTime == 40
\* retries the interpreter's recursion limit allows
MaxDepth == 1
\* how far from now a server-declared release instant lies
Delta == 5

Threads  == {"t1", "t2"}
NoThread == "none"
NoValue  == [t |-> "nothing"]

(***************************************************************************)
(* The CNPJws server: what one GET (requests.get + response.json()) gives  *)
(***************************************************************************)
\* requests.exceptions raised by the GET or by response.json()
TransportFailures == {"SSLError", "Timeout", "ConnectionError", "RequestException"}

\* time zones a release timestamp is rendered in: sign, hours, minutes of GMT+-HHMM
Zones == { [sgn |-> 1, hh |-> 0, mm |-> 0], [sgn |-> -1, hh |-> 3, mm |-> 30] }
ZoneOffset(z) == z.sgn * (z.hh * 3600 + z.mm * 60)

\* the detalhes field: absent, text without a timestamp, a timestamp that
\* matches the pattern but is no date, or the release instant r rendered as
\* wall-clock seconds in zone z
Stamp(r, z) == [kind |-> "stamp", wall |-> r + ZoneOffset(z), zone |-> z]
NoStamp     == { [kind |-> "absent"], [kind |-> "text"], [kind |-> "baddate"] }

Records  == { [razao_social |-> "A"], [razao_social |-> "B"] }
Statuses == {200, 201, 404, 429, 500}

Response(st, b) == [k |-> "resp", status |-> st, body |-> b]

\* what a GET sent at time t can get: o is what the client sees, due is how
\* far after t the release instant of a 429 lies (0 when there is none)
Outcomes(t) ==
    { [o |-> [k |-> "exc", exc |-> e], due |-> 0] : e \in TransportFailures }
    \cup { [o |-> Response(200, b), due |-> 0] : b \in Records }
    \cup { [o |-> Response(429, [detalhes |-> d]), due |-> 0] : d \in NoStamp }
    \cup { [o |-> Response(429, [detalhes |-> Stamp(t + e, z)]), due |-> e] :
             e \in {-Delta, 0, Delta}, z \in Zones }
    \cup { [o |-> Response(st, [detalhes |-> [kind |-> "text"]]), due |-> 0] :
             st \in Statuses \ {200, 429} }

\* what the history keeps of an outcome: a timestamp only by its kind
Seen(x) ==
    IF x.o.k = "exc" THEN [k |-> "exc", exc |-> x.o.exc]
    ELSE IF x.o.status = 200 THEN [k |-> "resp", status |-> 200, body |-> x.o.body]
    ELSE [k |-> "resp", status |-> x.o.status,
          detalhes |-> x.o.body.detalhes.kind, due |-> x.due]

(***************************************************************************)
(* CNPJ._extract_and_wait_for_release                                      *)
(***************************************************************************)
\* timedelta(hours=int(tz[:3]), minutes=int(tz[0] + tz[3:]))
TzOffset(z) == (z.sgn * z.hh) * 3600 + (z.sgn * z.mm) * 60

\* as CNPJ_extract_and_wait_for_release, without lines 218-219
CNPJ_extract_and_wait_for_release_NoClamp(error_message, clock) ==
    IF error_message.kind \in {"absent", "text", "baddate"} THEN Raise("ValueError")
    ELSE Ret(error_message.wall - TzOffset(error_message.zone) - clock)

\* seconds to wait, Ret(0) when the release instant is not in the future;
\* clock is datetime.now().astimezone()
CNPJ_extract_and_wait_for_release(error_message, clock) ==
    IF error_message.kind \in {"absent", "text"} THEN Raise("ValueError")
    ELSE IF error_message.kind = "baddate" THEN Raise("ValueError")
    ELSE LET release_date_aware == error_message.wall - TzOffset(error_message.zone)
             wait_seconds       == release_date_aware - clock
         IN  IF wait_seconds <= 0 THEN Ret(0) ELSE Ret(wait_seconds)

(***************************************************************************)
(* CNPJ._investigate_cnpj: what the body does with the outcome of its GET  *)
(***************************************************************************)
\* requests' Response.raise_for_status(): HTTPError for 4xx and 5xx only
RaisesForStatus(status_code) == 400 <= status_code /\ status_code < 600

Finish(r)   == [next |-> "finish", result |-> r, wait |-> -1, sleeps |-> FALSE]
\* the 429 branch: time.sleep(wait) only when wait > 0, then the recursive call
Retry(wait) == [next |-> "retry", result |-> NoValue, wait |-> wait, sleeps |-> wait > 0]

\* as CNPJ_investigate_cnpj_body, without the 404 branch of lines 269-275
CNPJ_investigate_cnpj_body_No404(outcome, clock) ==
    IF outcome.k = "exc" THEN Finish(Raise(outcome.exc))
    ELSE IF outcome.status = 200 THEN Finish(Ret(outcome.body))
    ELSE IF outcome.status = 429 THEN
        LET wait_for_release ==
                CNPJ_extract_and_wait_for_release(outcome.body.detalhes, clock)
        IN  IF IsRaise(wait_for_release) THEN Finish(wait_for_release)
            ELSE Retry(wait_for_release.v)
    ELSE IF RaisesForStatus(outcome.status) THEN Finish(Raise("HTTPError"))
    ELSE Finish(Ret(PyNone))

\* lines 258-319: every except clause re-raises what it caught; a status
\* that is none of 200, 404, 429 and that raise_for_status lets through
\* falls off the end of the function, which returns None
CNPJ_investigate_cnpj_body(outcome, clock) ==
    IF outcome.k = "exc" THEN Finish(Raise(outcome.exc))
    ELSE IF outcome.status = 200 THEN Finish(Ret(outcome.body))
    ELSE IF outcome.status = 404 THEN Finish(Ret(PyNone))
    ELSE IF outcome.status = 429 THEN
        LET wait_for_release ==
                CNPJ_extract_and_wait_for_release(outcome.body.detalhes, clock)
        IN  IF IsRaise(wait_for_release) THEN Finish(wait_for_release)
            ELSE Retry(wait_for_release.v)
    ELSE IF RaisesForStatus(outcome.status) THEN Finish(Raise("HTTPError"))
    ELSE Finish(Ret(PyNone))

\* the arguments of the recursive call of lines 288-292
RetryFrame(f) == [cnpj |-> f.cnpj, timeout |-> f.timeout,
                  retry_count |-> f.retry_count + 1]

\* as CNPJ_investigate_frame, checking the format only
CNPJ_investigate_frame_FormatOnly(cnpj, timeout, limit) ==
    LET f == CNPJ_validate_input_format(cnpj, limit) IN
    IF IsRet(f) THEN [cnpj |-> f.v, timeout |-> timeout, retry_count |-> 0]
    ELSE NoValue

\* CNPJ.investigate, lines 341-346: the frame of the first guarded call, or
\* NoValue when validate rejects the input and None is returned at once
CNPJ_investigate_frame(cnpj, timeout, limit) ==
    LET cnpj_valid == CNPJ_validate(cnpj, limit) IN
    IF IsRet(cnpj_valid) /\ cnpj_valid.v.ty = "str"
    THEN [cnpj |-> cnpj_valid.v.s, timeout |-> timeout, retry_count |-> 0]
    ELSE NoValue

(***************************************************************************)
(* utils.py: rate_limited                                                  *)
(***************************************************************************)
\* lines 30-35: the sleep the wrapper takes under the lock, 0 for none
WaitTime(current_time, last) ==
    LET time_since_last == current_time - last IN
    IF time_since_last < MIN_INTERVAL THEN MIN_INTERVAL - time_since_last ELSE 0

(***************************************************************************)
(* Inputs of CNPJ.investigate                                              *)
(***************************************************************************)
\* "11.222.333/0001-81", "12abc34501de35" (alphanumeric,
\* lower case), 191 (00.000.000/0001-91), and rejected ones: wrong check
\* digit, all characters equal, too short, not a str or int
LookupInputs ==
    { PyStr(<<49,49,46,50,50,50,46,51,51,51,47,48,48,48,49,45,56,49>>),
      PyStr(<<49,50,97,98,99,51,52,53,48,49,100,101,51,53>>),
      PyInt(FALSE, 0, 191),
      PyStr(<<49,49,50,50,50,51,51,51,48,48,48,49,56,50>>),
      PyStr(<<49,49,49,49,49,49,49,49,49,49,49,49,49,49>>),
      PyStr(<<49,50,51>>),
      PyOther }
Timeouts == {1, 10}

(***************************************************************************)
(* The lookup client under threads: CNPJ.investigate called once by each   *)
(* thread, all through the one limiter of CNPJ._investigate_cnpj           *)
(***************************************************************************)
\* a thread before its call: frame is the frame of the guarded call it is
\* in, pending what the wrapped function produced or raised, wake the end
\* of its sleep.  History of the call: resp the last outcome of a GET, req
\* the last GET issued, wait the last wait computed for a 429, waited
\* whether line 286 has slept, nreq the GETs issued, nlsleep the sleeps
\* taken in the limiter, nstamp the writes of last_call_end
NoResponse == [k |-> "none"]
NewThread(inp, tmo) ==
    [pc |-> "idle", inp |-> inp, tmo |-> tmo, frame |-> NoValue, wake |-> 0,
     pending |-> NoValue, resp |-> NoResponse, req |-> NoValue,
     wait |-> -1, waited |-> FALSE, nreq |-> 0, nlsleep |-> 0, nstamp |-> 0]

StartTime == MIN_INTERVAL
TickStep  == MIN_INTERVAL \div 2

\* investigate("11.222.333/0001-81") with the default timeout=10
DefaultThread ==
    NewThread(PyStr(<<49,49,46,50,50,50,46,51,51,51,47,48,48,48,49,45,56,49>>), 10)

InitLookup ==
    /\ now = StartTime
    /\ last_call_end = 0
    /\ lock = NoThread
    /\ th \in [Threads -> {NewThread(i, tm) : i \in LookupInputs, tm \in Timeouts}]
    /\ th["t2"] = DefaultThread
    /\ prev = NoValue
    /\ recursion_limit = MaxDepth
    /\ int_limit = TRUE
    /\ arg = NoValue
    /\ out = NoValue

\* time passes
Tick ==
    /\ now + TickStep <= MaxTime
    /\ now' = now + TickStep
    /\ UNCHANGED <<last_call_end, lock, th, prev, recursion_limit, int_limit, arg, out>>

\* CNPJ.investigate: validate, then None or the first guarded call
Investigate(t) ==
    /\ th[t].pc = "idle"
    /\ LET f == CNPJ_investigate_frame(th[t].inp, th[t].tmo, int_limit) IN
       th' = [th EXCEPT ![t] =
                IF f = NoValue
                THEN [@ EXCEPT !.pc = "done", !.pending = Ret(PyNone)]
                ELSE [@ EXCEPT !.pc = "enter", !.frame = f]]
    /\ UNCHANGED <<now, last_call_end, lock, prev, recursion_limit, int_limit, arg, out>>

\* utils.py line 40: func(*args, **kwargs) begins, and with it the GET
Begun(r) == [r EXCEPT !.pc = "call", !.nreq = @ + 1,
                      !.req = [cnpj |-> r.frame.cnpj, timeout |-> r.frame.timeout]]
Started(t)  == [t |-> t, lvl |-> th[t].frame.retry_count, end |-> -1]

\* as Enter, with the lock kept through the call
Enter_HoldLock(t) ==
    /\ th[t].pc = "enter"
    /\ lock = NoThread
    /\ LET wait_time == WaitTime(now, last_call_end) IN
       IF wait_time > 0
       THEN /\ lock' = t
            /\ th' = [th EXCEPT ![t] = [@ EXCEPT !.pc = "sleep",
                                                 !.wake = now + wait_time,
                                                 !.nlsleep = @ + 1]]
            /\ UNCHANGED prev
       ELSE /\ lock' = t
            /\ th' = [th EXCEPT ![t] = Begun(@)]
            /\ prev' = Started(t)
    /\ UNCHANGED <<now, last_call_end, recursion_limit, int_limit, arg, out>>

\* as Enter, writing last_call_end when the call begins
Enter_StampAtStart(t) ==
    /\ th[t].pc = "enter"
    /\ lock = NoThread
    /\ LET wait_time == WaitTime(now, last_call_end) IN
       IF wait_time > 0
       THEN /\ lock' = t
            /\ th' = [th EXCEPT ![t] = [@ EXCEPT !.pc = "sleep",
                                                 !.wake = now + wait_time,
                                                 !.nlsleep = @ + 1]]
            /\ UNCHANGED <<prev, last_call_end>>
       ELSE /\ lock' = NoThread
            /\ th' = [th EXCEPT ![t] = Begun(@)]
            /\ prev' = Started(t)
            /\ last_call_end' = now
    /\ UNCHANGED <<now, recursion_limit, int_limit, arg, out>>

\* utils.py lines 29-36: take the lock, compare with last_call_end, and
\* either release it and call, or start the sleep with the lock held
Enter(t) ==
    /\ th[t].pc = "enter"
    /\ lock = NoThread
    /\ LET wait_time == WaitTime(now, last_call_end) IN
       IF wait_time > 0
       THEN /\ lock' = t
            /\ th' = [th EXCEPT ![t] = [@ EXCEPT !.pc = "sleep",
                                                 !.wake = now + wait_time,
                                                 !.nlsleep = @ + 1]]
            /\ UNCHANGED prev
       ELSE /\ lock' = NoThread
            /\ th' = [th EXCEPT ![t] = Begun(@)]
            /\ prev' = Started(t)
    /\ UNCHANGED <<now, last_call_end, recursion_limit, int_limit, arg, out>>

\* as EndSleep, with the call made inside the with block
EndSleep_KeepLock(t) ==
    /\ th[t].pc = "sleep"
    /\ now >= th[t].wake
    /\ lock' = t
    /\ th' = [th EXCEPT ![t] = Begun([@ EXCEPT !.wake = 0])]
    /\ prev' = Started(t)
    /\ UNCHANGED <<now, last_call_end, recursion_limit, int_limit, arg, out>>

\* utils.py line 36 returns: time.sleep is over, the lock is released
EndSleep(t) ==
    /\ th[t].pc = "sleep"
    /\ now >= th[t].wake
    /\ lock' = NoThread
    /\ th' = [th EXCEPT ![t] = Begun([@ EXCEPT !.wake = 0])]
    /\ prev' = Started(t)
    /\ UNCHANGED <<now, last_call_end, recursion_limit, int_limit, arg, out>>

\* the recursive call of line 288, or RecursionError at the recursion limit
Recurse(r) ==
    IF r.frame.retry_count >= recursion_limit
    THEN [r EXCEPT !.pc = "exit", !.pending = Raise("RecursionError")]
    ELSE [r EXCEPT !.pc = "enter", !.frame = RetryFrame(r.frame)]

\* the GET of line 259 ends, with a response or an exception, and the body
\* of _investigate_cnpj runs up to its return, its raise, or its sleep
HttpReturn(t) ==
    /\ th[t].pc = "call"
    /\ \E x \in Outcomes(now) :
         LET b == CNPJ_investigate_cnpj_body(x.o, now)
             r == [th[t] EXCEPT !.resp = Seen(x),
                                !.wait = b.wait, !.waited = @ \/ b.sleeps]
         IN  th' = [th EXCEPT ![t] =
                      IF b.next = "finish"
                      THEN [r EXCEPT !.pc = "exit", !.pending = b.result]
                      ELSE IF b.sleeps
                      THEN [r EXCEPT !.pc = "wait429", !.wake = now + b.wait]
                      ELSE Recurse(r)]
    /\ UNCHANGED <<now, last_call_end, lock, prev, recursion_limit, int_limit, arg, out>>

\* time.sleep(wait_for_release) of line 286 is over
EndWait429(t) ==
    /\ th[t].pc = "wait429"
    /\ now >= th[t].wake
    /\ th' = [th EXCEPT ![t] = Recurse([@ EXCEPT !.wake = 0])]
    /\ UNCHANGED <<now, last_call_end, lock, prev, recursion_limit, int_limit, arg, out>>

\* as FinallyStamp, with a return in the finally clause, which discards
\* the exception in flight
FinallyStamp_Swallow(r, current_time, last) ==
    [last |-> current_time,
     r |-> [r EXCEPT !.nstamp = @ + 1,
                     !.pending = IF IsRaise(@) THEN Ret(PyNone) ELSE @]]

\* as FinallyStamp, with the stamp after the call instead of in a finally
FinallyStamp_OnReturnOnly(r, current_time, last) ==
    IF IsRaise(r.pending) THEN [last |-> last, r |-> r]
    ELSE [last |-> current_time, r |-> [r EXCEPT !.nstamp = @ + 1]]

\* utils.py lines 42-45: the finally clause writes the time under the lock
\* whether func returned or raised: the new last_call_end and the thread
FinallyStamp(r, current_time, last) ==
    [last |-> current_time, r |-> [r EXCEPT !.nstamp = @ + 1]]

\* the guarded call ends: the stamp, then the value or exception goes to the
\* caller: the frame that made the recursive call (which returns or
\* re-raises it), or the caller of investigate
Exit(t) ==
    /\ th[t].pc = "exit"
    /\ lock = NoThread
    /\ LET f == FinallyStamp(th[t], now, last_call_end) IN
       /\ last_call_end' = f.last
       /\ th' = [th EXCEPT ![t] =
                   IF f.r.frame.retry_count > 0
                   THEN [f.r EXCEPT !.frame = [@ EXCEPT !.retry_count = @ - 1]]
                   ELSE [f.r EXCEPT !.pc = "done"]]
    /\ prev' = IF prev # NoValue /\ prev.t = t
                  /\ prev.lvl = th[t].frame.retry_count /\ prev.end < 0
               THEN [prev EXCEPT !.end = now] ELSE prev
    /\ UNCHANGED <<now, lock, recursion_limit, int_limit, arg, out>>

Next ==
    \/ Tick
    \/ \E t \in Threads : Investigate(t)
    \/ \E t \in Threads : Enter(t)
    \/ \E t \in Threads : EndSleep(t)
    \/ \E t \in Threads : HttpReturn(t)
    \/ \E t \in Threads : EndWait429(t)
    \/ \E t \in Threads : Exit(t)

Spec == InitLookup /\ [][Next]_vars

(***************************************************************************)
(* One thread calling CNPJ.investigate in a loop, with a recursion limit   *)
(* that lets the retries go past _MAX_RETRIES                              *)
(***************************************************************************)
OffThread == [NewThread(PyOther, 10) EXCEPT !.pc = "off"]

InitRetry ==
    /\ now = StartTime
    /\ last_call_end = 0
    /\ lock = NoThread
    /\ th \in [Threads -> {NewThread(i, tm) : i \in LookupInputs, tm \in Timeouts}
                           \cup {OffThread}]
    /\ th["t1"].pc = "idle" /\ th["t2"] = OffThread
    /\ prev = NoValue
    /\ recursion_limit = MAX_RETRIES + MaxDepth
    /\ int_limit = TRUE
    /\ arg = NoValue
    /\ out = NoValue

\* the caller's loop: the next call of investigate, with the same arguments
Again(t) ==
    /\ th[t].pc = "done"
    /\ th' = [th EXCEPT ![t] = NewThread(@.inp, @.tmo)]
    /\ UNCHANGED <<now, last_call_end, lock, prev, recursion_limit, int_limit, arg, out>>

NextRetry ==
    \/ Next
    \/ \E t \in Threads : Again(t)

SpecRetry == InitRetry /\ [][NextRetry]_vars

(***************************************************************************)
(* Two threads under fair scheduling: the clock does not stop while a      *)
(* sleep is pending, every GET ends (requests.get is given a timeout), and *)
(* a thread waiting for the lock gets it once the lock stays free          *)
(***************************************************************************)
InitFair ==
    /\ now = StartTime
    /\ last_call_end = 0
    /\ lock = NoThread
    /\ th = [t \in Threads |-> DefaultThread]
    /\ prev = NoValue
    /\ recursion_limit = MaxDepth
    /\ int_limit = TRUE
    /\ arg = NoValue
    /\ out = NoValue

\* a time.sleep of thread t that is not over
Sleeping(t) == th[t].pc \in {"sleep", "wait429"} /\ th[t].wake > now

\* time passes: freely up to MaxTime, and after it while a sleep is pending
TickOn ==
    /\ now + TickStep <= MaxTime \/ \E t \in Threads : Sleeping(t)
    /\ now' = now + TickStep
    /\ UNCHANGED <<last_call_end, lock, th, prev, recursion_limit, int_limit, arg, out>>

NextFair ==
    \/ TickOn
    \/ \E t \in Threads : Investigate(t)
    \/ \E t \in Threads : Enter(t)
    \/ \E t \in Threads : EndSleep(t)
    \/ \E t \in Threads : HttpReturn(t)
    \/ \E t \in Threads : EndWait429(t)
    \/ \E t \in Threads : Exit(t)

\* the clock runs, a sleep that is over returns, a GET ends, and a thread
\* waiting for a lock that stays free takes it; nothing is assumed about
\* when a thread first calls investigate
Fairness ==
    /\ WF_vars(TickOn)
    /\ \A t \in Threads :
         /\ WF_vars(Enter(t))
         /\ WF_vars(EndSleep(t))
         /\ WF_vars(HttpReturn(t))
         /\ WF_vars(EndWait429(t))
         /\ WF_vars(Exit(t))

SpecFair == InitFair /\ [][NextFair]_vars /\ Fairness

(***************************************************************************)
(* The validators as functions of one input: Init draws the input, each    *)
(* action calls one entry point on it                                      *)
(***************************************************************************)
\* "11144477735", "111.444.777-35", "11222333000181", "11.222.333/0001-81",
\* "12ABC34501DE35"
BaseStrings ==
    { <<49,49,49,52,52,52,55,55,55,51,53>>,
      <<49,49,49,46,52,52,52,46,55,55,55,45,51,53>>,
      <<49,49,50,50,50,51,51,51,48,48,48,49,56,49>>,
      <<49,49,46,50,50,50,46,51,51,51,47,48,48,48,49,45,56,49>>,
      <<49,50,65,66,67,51,52,53,48,49,68,69,51,53>> }
\* ' ', '-', '.', '0', '5', '9', ':', '@', 'A', 'Z', 'a'
SubstChars == {32, 45, 46, 48, 53, 57, 58, 64, 65, 90, 97}
\* '0', '1', 'A'
RepeatChars == {48, 49, 65}

\* a base, a base with one character replaced, a prefix of a base, or one
\* character repeated to a CPF's or a CNPJ's length
ValStrings ==
    { [b EXCEPT ![i] = c] : b \in BaseStrings,
                            i \in {1, 2, 9, 10, 11}, c \in SubstChars }
    \cup { [b EXCEPT ![Len(b)] = c] : b \in BaseStrings, c \in SubstChars }
    \cup UNION { { SubSeq(b, 1, n) : n \in 0..Len(b) } : b \in BaseStrings }
    \cup { [i \in 1..n |-> c] : n \in {11, 14}, c \in RepeatChars }

\* 0, 191, 1234567890, 11144477735, 11222333000181, 10^14 - 1, 10^14, and
\* their negatives; an int beyond the conversion limit
ValInts ==
    { PyInt(neg, m[1], m[2]) :
        neg \in BOOLEAN,
        m \in { <<0, 0>>, <<0, 191>>, <<123, 4567890>>, <<1114, 4477735>>,
                <<1122233, 3000181>>, <<9999999, 9999999>>, <<10000000, 0>> } }
    \cup {PyBigInt}

ValInputs == { PyStr(x) : x \in ValStrings } \cup ValInts \cup {PyOther}

NoCall == [op |-> "none"]

InitVal ==
    /\ now = StartTime
    /\ last_call_end = 0
    /\ lock = NoThread
    /\ th = [t \in Threads |-> OffThread]
    /\ prev = NoValue
    /\ recursion_limit = MaxDepth
    /\ int_limit \in BOOLEAN
    /\ arg \in ValInputs
    /\ out = NoCall

CallCpfValidate ==
    /\ out = NoCall
    /\ out' = [op |-> "CPF.validate", r |-> CPF_validate(arg, int_limit)]
    /\ UNCHANGED <<now, last_call_end, lock, th, prev, recursion_limit, int_limit, arg>>

CallCnpjValidate ==
    /\ out = NoCall
    /\ out' = [op |-> "CNPJ.validate", r |-> CNPJ_validate(arg, int_limit)]
    /\ UNCHANGED <<now, last_call_end, lock, th, prev, recursion_limit, int_limit, arg>>

NextVal ==
    \/ CallCpfValidate
    \/ CallCnpjValidate

SpecVal == InitVal /\ [][NextVal]_vars

(***************************************************************************)
(* The entry points of both classes called on one input, and called again  *)
(* on the string a first call returned                                     *)
(***************************************************************************)
EntryPoints ==
    { "CPF._validate_input_format", "CPF.validate", "CPF.format",
      "CNPJ._validate_input_format", "CNPJ.validate", "CNPJ.format",
      "CNPJ.find_matrix" }
Validators == { "CPF.validate", "CNPJ.validate" }

Apply(op, x, limit) ==
    CASE op = "CPF._validate_input_format"  -> CPF_validate_input_format(x, limit)
      [] op = "CPF.validate"                -> CPF_validate(x, limit)
      [] op = "CPF.format"                  -> CPF_format(x, limit)
      [] op = "CNPJ._validate_input_format" -> CNPJ_validate_input_format(x, limit)
      [] op = "CNPJ.validate"               -> CNPJ_validate(x, limit)
      [] op = "CNPJ.format"                 -> CNPJ_format(x, limit)
      [] op = "CNPJ.find_matrix"            -> CNPJ_find_matrix(x, limit)

\* a call: the entry point, its argument, what it produced, and the call
\* whose result the argument was (NoCall for a call on the input)
Called(op, x, limit, was) ==
    [op |-> op, x |-> x, r |-> Apply(op, x, limit), was |-> was]

\* whether a call returned a str, and that str
ReturnedStr(c) ==
    /\ IsRet(c.r)
    /\ c.op \in Validators => c.r.v.ty = "str"
StrOf(c) == IF c.op \in Validators THEN c.r.v.s ELSE c.r.v

\* "111@444#777-35", "111 444 777 35", "111.444.777/35", "12345678ABC",
\* "1114447773a", "-11144477735", "+11144477735", "11.222.333/0001-81\n",
\* "00000000191", "00000000000191", "12ABC34501DE00", "11_222_333/0001-81"
MoreStrings ==
    { <<49,49,49,64,52,52,52,35,55,55,55,45,51,53>>,
      <<49,49,49,32,52,52,52,32,55,55,55,32,51,53>>,
      <<49,49,49,46,52,52,52,46,55,55,55,47,51,53>>,
      <<49,50,51,52,53,54,55,56,65,66,67>>,
      <<49,49,49,52,52,52,55,55,55,51,97>>,
      <<45,49,49,49,52,52,52,55,55,55,51,53>>,
      <<43,49,49,49,52,52,52,55,55,55,51,53>>,
      <<49,49,46,50,50,50,46,51,51,51,47,48,48,48,49,45,56,49,10>>,
      <<48,48,48,48,48,48,48,48,49,57,49>>,
      <<48,48,48,48,48,48,48,48,48,48,48,49,57,49>>,
      <<49,50,65,66,67,51,52,53,48,49,68,69,48,48>>,
      <<49,49,95,50,50,50,95,51,51,51,47,48,48,48,49,45,56,49>> }

\* the 14-character bases with either check character replaced
CheckCharStrings ==
    { [b EXCEPT ![i] = c] : b \in { x \in BaseStrings : Len(x) = 14 },
                            i \in {13, 14}, c \in SubstChars }

CallInputs ==
    ValInputs \cup { PyStr(x) : x \in MoreStrings \cup CheckCharStrings }

InitCalls ==
    /\ now = StartTime
    /\ last_call_end = 0
    /\ lock = NoThread
    /\ th = [t \in Threads |-> OffThread]
    /\ prev = NoValue
    /\ recursion_limit = MaxDepth
    /\ int_limit \in BOOLEAN
    /\ arg \in CallInputs
    /\ out = NoCall

\* one entry point is called on the input
Call(op) ==
    /\ out = NoCall
    /\ out' = Called(op, arg, int_limit, NoCall)
    /\ UNCHANGED <<now, last_call_end, lock, th, prev, recursion_limit, int_limit, arg>>

\* one entry point is called on the str the first call returned
CallOnResult(op) ==
    /\ out # NoCall
    /\ out.was = NoCall
    /\ ReturnedStr(out)
    /\ out' = Called(op, PyStr(StrOf(out)), int_limit, out)
    /\ UNCHANGED <<now, last_call_end, lock, th, prev, recursion_limit, int_limit, arg>>

NextCalls ==
    \/ \E op \in EntryPoints : Call(op)
    \/ \E op \in EntryPoints : CallOnResult(op)

SpecCalls == InitCalls /\ [][NextCalls]_vars

(***************************************************************************)
(* The helpers of the check-digit computation and the earlier validators,  *)
(* each called on one input                                                *)
(***************************************************************************)
EarlierValidators ==
    { "CNPJValidator.validate_cnpj", "CNPJValidator.validar_cnpj" }
DigitCalculators == { "CPF._calculate_digit", "CNPJ._calculate_digit" }

\* every prefix of every string the validators are called on
PartStrings ==
    UNION { { SubSeq(s, 1, n) : n \in 0..Len(s) } :
              s \in ValStrings \cup MoreStrings \cup CheckCharStrings }

\* the ASCII characters, and beyond them U+00FF, U+0660 ARABIC-INDIC DIGIT
\* ZERO and U+FF21 FULLWIDTH LATIN CAPITAL LETTER A
CharCodes == 0..127 \cup {255, 1632, 65313}
CharStrings == { <<c>> : c \in CharCodes }

PartInputs ==
    CallInputs \cup { PyStr(x) : x \in PartStrings \cup CharStrings }

\* len(partial) of what is no str raises TypeError
ApplyCalculateDigit(op, x) ==
    IF x.ty # "str" THEN Raise("TypeError")
    ELSE CASE op = "CPF._calculate_digit"  -> CPF_calculate_digit(x.s)
           [] op = "CNPJ._calculate_digit" -> CNPJ_calculate_digit(x.s)

\* ord(character) of what is no str of length 1 raises TypeError
ApplyCharacterToValue(x) ==
    IF x.ty # "str" \/ Len(x.s) # 1 THEN Raise("TypeError")
    ELSE CNPJ_character_to_value(x.s[1])

ApplyEarlier(op, x, limit) ==
    CASE op = "CNPJValidator.validate_cnpj" -> CNPJValidator_validate_cnpj(x, limit)
      [] op = "CNPJValidator.validar_cnpj"  -> CNPJValidator_validar_cnpj(x, limit)

InitParts ==
    /\ now = StartTime
    /\ last_call_end = 0
    /\ lock = NoThread
    /\ th = [t \in Threads |-> OffThread]
    /\ prev = NoValue
    /\ recursion_limit = MaxDepth
    /\ int_limit \in BOOLEAN
    /\ arg \in PartInputs
    /\ out = NoCall

\* one of the earlier validators is called on the input
CallEarlier(op) ==
    /\ out = NoCall
    /\ out' = [op |-> op, x |-> arg, r |-> ApplyEarlier(op, arg, int_limit)]
    /\ UNCHANGED <<now, last_call_end, lock, th, prev, recursion_limit, int_limit, arg>>

\* _calculate_digit of one class is called on the input
CallCalculateDigit(op) ==
    /\ out = NoCall
    /\ out' = [op |-> op, x |-> arg, r |-> ApplyCalculateDigit(op, arg)]
    /\ UNCHANGED <<now, last_call_end, lock, th, prev, recursion_limit, int_limit, arg>>

\* CNPJ._character_to_value is called on the input
CallCharacterToValue ==
    /\ out = NoCall
    /\ out' = [op |-> "CNPJ._character_to_value", x |-> arg,
               r |-> ApplyCharacterToValue(arg)]
    /\ UNCHANGED <<now, last_call_end, lock, th, prev, recursion_limit, int_limit, arg>>

NextParts ==
    \/ \E op \in EarlierValidators : CallEarlier(op)
    \/ \E op \in DigitCalculators : CallCalculateDigit(op)
    \/ CallCharacterToValue

SpecParts == InitParts /\ [][NextParts]_vars

(***************************************************************************)
(* Properties                                                              *)
(***************************************************************************)
Ended(t)        == th[t].pc \in {"exit", "done"}
GotStatus(t, S) == th[t].resp.k = "resp" /\ th[t].resp.status \in S
GotStamp(t)     == GotStatus(t, {429}) /\ th[t].resp.detalhes = "stamp"
\* the inputs of LookupInputs for which CNPJ.validate returns False
RejectedInputs  == { i \in LookupInputs : CNPJ_validate(i, TRUE) = Ret(PyFalse) }
Rejected(t)     == th[t].inp \in RejectedInputs

\* C1: whenever a guarded call begins the wrapped function, the guarded call
\* that began it last has completed, and did so at least MIN_INTERVAL
\* before (a retry made from inside that call, by its own thread, is let by)
C1_IntervalSinceLastCompletion ==
    [][\A t \in Threads :
         (th[t].pc \in {"enter", "sleep"} /\ th'[t].pc = "call")
         => \/ prev = NoValue
            \/ (prev.t = t /\ prev.end < 0)
            \/ (prev.end >= 0 /\ now' - prev.end >= MIN_INTERVAL)]_vars

\* C2: a response whose status is none of 200, 404, 429 ends the lookup
\* with an error, never with None or a record
C2_OtherStatusRaises ==
    \A t \in Threads :
        (th[t].resp.k = "resp" /\ th[t].resp.status \notin {200, 404, 429})
        => (Ended(t) /\ IsRaise(th[t].pending))

\* C3: when every response is a 429 whose release instant has passed, the
\* retry counter never exceeds MAX_RETRIES and the lookup returns a value
C3_RetriesBounded ==
    \A t \in Threads :
        /\ (th[t].frame # NoValue /\ ~th[t].waited)
           => th[t].frame.retry_count <= MAX_RETRIES
        /\ (th[t].pc = "done" /\ GotStamp(t) /\ ~th[t].waited)
           => IsRet(th[t].pending)

\* C4: every GET of a lookup is for the normalized CNPJ with the caller's
\* timeout, a 429 with a release instant ahead is slept out for the
\* computed wait, and after retries the lookup produces the outcome of the
\* first response that is no 429: the record for 200, None for 404, an
\* error otherwise
C4_RetryThenFirstOtherOutcome ==
    \A t \in Threads :
        /\ th[t].pc = "call"
           => th[t].req = [cnpj |-> CNPJ_validate(th[t].inp, int_limit).v.s,
                           timeout |-> th[t].tmo]
        /\ th[t].pc = "wait429"
           => (GotStamp(t) /\ th[t].resp.due > 0 /\ th[t].wait = th[t].resp.due)
        /\ (th[t].pc = "done" /\ th[t].nreq > 1 /\ ~GotStatus(t, {429}))
           => IF GotStatus(t, {200}) THEN th[t].pending = Ret(th[t].resp.body)
              ELSE IF GotStatus(t, {404}) THEN th[t].pending = Ret(PyNone)
              ELSE IsRaise(th[t].pending)

\* C5: a 429 whose detalhes holds no release timestamp, or is absent, ends
\* the lookup with an API error, without sleep, retry or None
C5_NoTimestampIsApiError ==
    \A t \in Threads :
        (GotStatus(t, {429}) /\ th[t].resp.detalhes \in {"absent", "text"})
        => (Ended(t) /\ th[t].pending = Raise("CNPJAPIError"))

\* C6: the wait computed for a 429 is max(0, release instant - now), never
\* negative; with the release instant at or before now it is 0, and the
\* retry follows without the sleep of line 286
C6_WaitIsClampedDifference ==
    \A t \in Threads :
        GotStamp(t)
        => /\ th[t].wait = (IF th[t].resp.due > 0 THEN th[t].resp.due ELSE 0)
           /\ th[t].wait >= 0
           /\ th[t].resp.due <= 0
              => /\ th[t].wait = 0
                 /\ th[t].pc # "wait429"
                 /\ \/ th[t].pc \in {"enter", "sleep", "call"}
                    \/ (Ended(t) /\ th[t].pending = Raise("RecursionError"))

\* a 429 released in the past was answered by a new GET, with no sleep
C6_Witness ==
    \E t \in Threads :
        /\ GotStamp(t) /\ th[t].resp.due < 0
        /\ th[t].pc = "call" /\ th[t].frame.retry_count = 1
        /\ th[t].wait = 0 /\ ~th[t].waited

\* C7: status 200 makes the lookup return the parsed body as it came, and
\* status 404 makes it return None, with no error and no retry
C7_FoundAndNotFound ==
    \A t \in Threads :
        /\ GotStatus(t, {200})
           => (Ended(t) /\ th[t].pending = Ret(th[t].resp.body))
        /\ GotStatus(t, {404})
           => (Ended(t) /\ th[t].pending = Ret(PyNone))

\* one lookup has returned the record of a 200, another None for a 404
C7_Witness ==
    /\ th["t1"].pc = "done" /\ GotStatus("t1", {200})
    /\ th["t1"].pending = Ret([razao_social |-> "B"]) /\ th["t1"].nreq = 1
    /\ th["t2"].pc = "done" /\ GotStatus("t2", {404})
    /\ th["t2"].pending = Ret(PyNone) /\ th["t2"].nreq = 1

\* C8: for an input that validate rejects, the only step of investigate is
\* the return of None: no GET, no sleep in the limiter, the lock and
\* last_call_end left as they were
C8_RejectedInputOnlyReturnsNone ==
    [][\A t \in Threads :
         (th'[t] # th[t] /\ Rejected(t))
         => /\ th[t].pc = "idle"
            /\ th'[t] = [th[t] EXCEPT !.pc = "done", !.pending = Ret(PyNone)]
            /\ last_call_end' = last_call_end
            /\ lock' = lock
            /\ now' = now]_vars

\* investigate has returned None for a rejected input while the other
\* thread's GET is in flight
C8_Witness ==
    \E t \in Threads :
        /\ Rejected(t) /\ th[t].pc = "done" /\ th[t].pending = Ret(PyNone)
        /\ th[t].req = NoValue /\ th[t].nlsleep = 0 /\ th[t].nstamp = 0
        /\ \E u \in Threads \ {t} : th[u].pc = "call"

C10_ValidateNeverRaises ==
    /\ out.op = "CPF.validate"
       => /\ IsRet(out.r)
          /\ IsRaise(CPF_validate_input_format(arg, int_limit)) => out.r = Ret(PyFalse)
    /\ out.op = "CNPJ.validate"
       => /\ IsRet(out.r)
          /\ IsRaise(CNPJ_validate_input_format(arg, int_limit)) => out.r = Ret(PyFalse)

(***************************************************************************)
(* The check digits as the specification states them, for the properties   *)
(***************************************************************************)
RECURSIVE SumSeq(_)
SumSeq(q) == IF q = <<>> THEN 0 ELSE Head(q) + SumSeq(Tail(q))

\* sum of value * weight modulo 11, 0 when below 2, else 11 minus it
RefDigit(values, weights) ==
    LET r == SumSeq([i \in 1..Len(values) |-> values[i] * weights[i]]) % 11
    IN  IF r < 2 THEN 0 ELSE 11 - r

\* a character's value: '0'..'9' are 0..9, 'A'..'Z' are 17..42
RefValues(s) == [i \in 1..Len(s) |-> s[i] - 48]
\* CPF: k+1 down to 2; CNPJ: 2..9 from the right, starting over after 9
RefCpfWeights(k)  == [i \in 1..k |-> k + 2 - i]
RefCnpjWeights(k) == [i \in 1..k |-> 2 + ((k - i) % 8)]

\* the two check characters of the first 9 characters of a CPF
RefCpfCheck(c) ==
    LET d1 == RefDigit(RefValues(SubSeq(c, 1, 9)), RefCpfWeights(9))
        d2 == RefDigit(RefValues(SubSeq(c, 1, 9)) \o <<d1>>, RefCpfWeights(10))
    IN  <<48 + d1, 48 + d2>>
\* the two check characters of the first 12 characters of a CNPJ
RefCnpjCheck(c) ==
    LET d1 == RefDigit(RefValues(SubSeq(c, 1, 12)), RefCnpjWeights(12))
        d2 == RefDigit(RefValues(SubSeq(c, 1, 12)) \o <<d1>>, RefCnpjWeights(13))
    IN  <<48 + d1, 48 + d2>>

\* "11144477735"
ValidCpf == <<49,49,49,52,52,52,55,55,55,51,53>>

\* C11: for an input normalizing to 11 digits not all equal, CPF.validate
\* returns them when the last two are the digits computed under weights
\* 10..2 and 11..2, and False otherwise; a valid CPF with one check digit
\* replaced gives False
C11_CpfCheckDigits ==
    out.op = "CPF.validate"
    => /\ LET n == CPF_validate_input_format(out.x, int_limit) IN
          (IsRet(n) /\ ~AllSame(n.v))
          => out.r = (IF SubSeq(n.v, 10, 11) = RefCpfCheck(n.v)
                      THEN Ret(PyStr(n.v)) ELSE Ret(PyFalse))
       /\ \A i \in {10, 11} : \A c \in 48..57 :
              (c # ValidCpf[i] /\ out.x = PyStr([ValidCpf EXCEPT ![i] = c]))
              => out.r = Ret(PyFalse)

\* CPF.validate("11144477739") has returned False
C11_Witness ==
    /\ out.op = "CPF.validate"
    /\ out.x = PyStr([ValidCpf EXCEPT ![11] = 57])
    /\ out.r = Ret(PyFalse)

\* "12ABC34501DE35"
ValidAlnumCnpj == <<49,50,65,66,67,51,52,53,48,49,68,69,51,53>>

\* C12: for an input normalizing to 14 characters of [0-9A-Z] not all
\* equal, CNPJ.validate returns them when the last two are the digits
\* computed over the first 12 with letters valued 17..42, and False
\* otherwise
C12_CnpjCheckDigits ==
    out.op = "CNPJ.validate"
    => LET n == CNPJ_validate_input_format(out.x, int_limit) IN
       (IsRet(n) /\ ~AllSame(n.v))
       => out.r = (IF SubSeq(n.v, 13, 14) = RefCnpjCheck(n.v)
                   THEN Ret(PyStr(n.v)) ELSE Ret(PyFalse))

\* CNPJ.validate("12ABC34501DE35") has returned its argument
C12_Witness ==
    /\ out.op = "CNPJ.validate"
    /\ out.x = PyStr(ValidAlnumCnpj)
    /\ out.r = Ret(PyStr(ValidAlnumCnpj))

\* what the entry point's own normalizer makes of the argument of a call
Normalized(c) ==
    IF c.op = "CPF.validate" THEN CPF_validate_input_format(c.x, int_limit)
    ELSE CNPJ_validate_input_format(c.x, int_limit)

\* C13: CPF.validate and CNPJ.validate return False for an input whose
\* normalized characters are all the same, also when the recomputed check
\* digits match the last two
C13_AllIdenticalRejected ==
    out.op \in Validators
    => LET n == Normalized(out) IN
       (IsRet(n) /\ \A i \in 1..Len(n.v) : n.v[i] = n.v[1])
       => out.r = Ret(PyFalse)

\* CPF.validate("11111111111") has returned False although its last two
\* digits are the check digits of the first nine
C13_Witness ==
    /\ out.op = "CPF.validate"
    /\ out.x = PyStr([i \in 1..11 |-> 49])
    /\ RefCpfCheck(out.x.s) = <<49, 49>>
    /\ out.r = Ret(PyFalse)

\* a character that is no digit and none of '.', '-', '/' and whitespace
Foreign(c) == ~IsAsciiDigit(c) /\ c \notin {46, 45, 47} /\ ~IsSpace(c)

\* what a format error is to the caller of a call of class CPF: the
\* exception from the normalizer, False from validate
CpfFormatError(c) ==
    IF c.op = "CPF.validate" THEN Ret(PyFalse) ELSE Raise("CPFValidationError")

\* C14: a CPF string holding a character other than digits, '.', '-', '/'
\* and whitespace is a format error in CPF._validate_input_format and
\* False from CPF.validate
C14_CpfForeignCharacterRejected ==
    out.op \in {"CPF._validate_input_format", "CPF.validate"}
    => ((out.x.ty = "str" /\ \E i \in 1..Len(out.x.s) : Foreign(out.x.s[i]))
        => out.r = CpfFormatError(out))

\* C15: for a negative int, CPF._validate_input_format raises a format
\* error and CPF.validate returns False
C15_CpfNegativeIntRejected ==
    out.op \in {"CPF._validate_input_format", "CPF.validate"}
    => ((out.x.ty = "int" /\ ~out.x.big /\ out.x.neg
            /\ (out.x.hi # 0 \/ out.x.lo # 0))
        => out.r = CpfFormatError(out))

\* the k-th of the 14 decimal digits of hi * 10^7 + lo, as a character
RefDigitChar(x, k) ==
    48 + (IF k <= 7 THEN (x.hi \div (10 ^ (7 - k))) % 10
                    ELSE (x.lo \div (10 ^ (14 - k))) % 10)
\* an int in 0 .. 10^14 - 1
RefInRange(x) == ~x.big /\ x.hi < 10 ^ 7 /\ (~x.neg \/ (x.hi = 0 /\ x.lo = 0))

RefClean(s) ==
    LET kept == SelectSeq(s, LAMBDA c : c \notin {46, 45, 47} /\ ~IsSpace(c))
    IN  [i \in 1..Len(kept) |->
            IF kept[i] >= 97 /\ kept[i] <= 122 THEN kept[i] - 32 ELSE kept[i]]
\* 14 characters of [0-9A-Z]
RefWellFormed(c) ==
    Len(c) = 14 /\ \A i \in 1..14 : c[i] \in (48..57) \cup (65..90)

EndsInDigits(s) ==
    Len(s) >= 2 /\ s[Len(s) - 1] \in 48..57 /\ s[Len(s)] \in 48..57

\* C18: what CNPJ.validate returns, when not False, ends in two decimal
\* digits, an input with a letter in a check position is not accepted,
\* and what find_matrix returns ends in two decimal digits
C18_CheckCharactersAreDigits ==
    /\ out.op = "CNPJ.validate"
       => /\ (IsRet(out.r) /\ out.r.v # PyFalse) => EndsInDigits(out.r.v.s)
          /\ LET n == CNPJ_validate_input_format(out.x, int_limit) IN
             (IsRet(n) /\ ~EndsInDigits(n.v)) => out.r = Ret(PyFalse)
    /\ (out.op = "CNPJ.find_matrix" /\ IsRet(out.r)) => EndsInDigits(out.r.v)

\* CNPJ.validate("12ABC34501DE3A") has returned False
C18_Witness ==
    /\ out.op = "CNPJ.validate"
    /\ out.x = PyStr([ValidAlnumCnpj EXCEPT ![14] = 65])
    /\ out.r = Ret(PyFalse)

\* s without the characters at the positions of ps
Without(s, ps) ==
    LET keep == SelectSeq([i \in 1..Len(s) |-> i], LAMBDA i : i \notin ps)
    IN  [k \in 1..Len(keep) |-> s[keep[k]]]

\* C19: CPF.format gives DDD.DDD.DDD-DD and CNPJ.format XX.XXX.XXX/XXXX-XX
\* over the normalized characters of its argument; format of what format
\* returned is the same string, and normalizing it gives the normalized
\* form of the first argument
C19_FormatShapeAndIdempotence ==
    /\ (out.op = "CPF.format" /\ IsRet(out.r))
       => /\ Len(out.r.v) = 14
          /\ out.r.v[4] = 46 /\ out.r.v[8] = 46 /\ out.r.v[12] = 45
          /\ Ret(Without(out.r.v, {4, 8, 12}))
                = CPF_validate_input_format(out.x, int_limit)
    /\ (out.op = "CNPJ.format" /\ IsRet(out.r))
       => /\ Len(out.r.v) = 18
          /\ out.r.v[3] = 46 /\ out.r.v[7] = 46
          /\ out.r.v[11] = 47 /\ out.r.v[16] = 45
          /\ Ret(Without(out.r.v, {3, 7, 11, 16}))
                = CNPJ_validate_input_format(out.x, int_limit)
    /\ (out.op \in {"CPF.format", "CNPJ.format"} /\ out.was.op = out.op)
       => out.r = out.was.r
    /\ (out.op = "CPF._validate_input_format" /\ out.was.op = "CPF.format")
       => out.r = CPF_validate_input_format(out.was.x, int_limit)
    /\ (out.op = "CNPJ._validate_input_format" /\ out.was.op = "CNPJ.format")
       => out.r = CNPJ_validate_input_format(out.was.x, int_limit)

\* CNPJ.format("a1.222.333/0001-81") gave "A1.222.333/0001-81", and
\* CNPJ.format of that has returned the same
C19_Witness ==
    /\ out.op = "CNPJ.format" /\ out.was.op = "CNPJ.format"
    /\ out.was.x = PyStr(<<97,49,46,50,50,50,46,51,51,51,47,48,48,48,49,45,56,49>>)
    /\ out.x = PyStr(<<65,49,46,50,50,50,46,51,51,51,47,48,48,48,49,45,56,49>>)
    /\ out.r = Ret(out.x.s)

\* a str of 11 digits, and whether it is a valid CPF
ElevenDigits(x) ==
    x.ty = "str" /\ Len(x.s) = 11 /\ \A i \in 1..11 : x.s[i] \in 48..57
RefValidCpf(c) ==
    /\ \E i \in 1..Len(c) : c[i] # c[1]
    /\ SubSeq(c, 10, 11) = RefCpfCheck(c)

\* C20: for a str s of 11 digits CPF.validate(CPF.format(s)) is s when s is
\* valid and False when not, as CPF.validate(s) is; for an x that
\* CPF.validate accepts, CPF.format(CPF.validate(x)) is CPF.format(x)
C20_FormatKeepsValidity ==
    /\ (out.op = "CPF.validate" /\ out.was.op = "CPF.format"
            /\ ElevenDigits(out.was.x))
       => /\ out.r = (IF RefValidCpf(out.was.x.s)
                      THEN Ret(out.was.x) ELSE Ret(PyFalse))
          /\ out.r = CPF_validate(out.was.x, int_limit)
    /\ (out.op = "CPF.format" /\ out.was.op = "CPF.validate")
       => out.r = CPF_format(out.was.x, int_limit)

\* CPF.format("11144477735") gave "111.444.777-35", and CPF.validate of
\* that has returned "11144477735"
C20_Witness ==
    /\ out.op = "CPF.validate" /\ out.was.op = "CPF.format"
    /\ out.was.x = PyStr(ValidCpf)
    /\ out.x = PyStr(<<49,49,49,46,52,52,52,46,55,55,55,45,51,53>>)
    /\ out.r = Ret(PyStr(ValidCpf))

\* whether 14 characters of [0-9A-Z] are a valid CNPJ
RefValidCnpj(c) ==
    /\ \E i \in 1..Len(c) : c[i] # c[1]
    /\ SubSeq(c, 13, 14) = RefCnpjCheck(c)
\* whether CNPJ.validate is to accept the argument of a call
RefAccepted(c) ==
    LET n == CNPJ_validate_input_format(c.x, int_limit) IN
    IsRet(n) /\ RefValidCnpj(n.v)
\* XX.XXX.XXX/XXXX-XX
RefCnpjFormat(c) ==
    SubSeq(c, 1, 2) \o <<46>> \o SubSeq(c, 3, 5) \o <<46>> \o SubSeq(c, 6, 8)
    \o <<47>> \o SubSeq(c, 9, 12) \o <<45>> \o SubSeq(c, 13, 14)
\* the headquarters of b: its root, "0001", and the check digits of both
RefHeadquarters(b) ==
    LET partial == SubSeq(b, 1, 8) \o <<48, 48, 48, 49>>
    IN  partial \o RefCnpjCheck(partial)

\* C21: for a branch b that CNPJ.validate accepts, find_matrix returns the
\* formatted b[0:8] + "0001" + its two recomputed check digits, and
\* CNPJ.validate accepts what find_matrix returned
C21_FindMatrixHeadquarters ==
    /\ (out.op = "CNPJ.find_matrix" /\ RefAccepted(out))
       => LET b == CNPJ_validate_input_format(out.x, int_limit).v IN
          /\ out.r = Ret(RefCnpjFormat(RefHeadquarters(b)))
          /\ \E i \in 1..14 : RefHeadquarters(b)[i] # RefHeadquarters(b)[1]
    /\ (out.op = "CNPJ.validate" /\ out.was.op = "CNPJ.find_matrix")
       => out.r = Ret(PyStr(Without(out.x.s, {3, 7, 11, 16})))

\* find_matrix("12ABC34501DE35") gave "12.ABC.345/0001-88", and
\* CNPJ.validate of that has returned "12ABC345000188"
C21_Witness ==
    /\ out.op = "CNPJ.validate" /\ out.was.op = "CNPJ.find_matrix"
    /\ out.was.x = PyStr(ValidAlnumCnpj)
    /\ out.x = PyStr(<<49,50,46,65,66,67,46,51,52,53,47,48,48,48,49,45,56,56>>)
    /\ out.r = Ret(PyStr(<<49,50,65,66,67,51,52,53,48,48,48,49,56,56>>))

\* C22: for a valid CNPJ whose characters 9..12 are "0001", find_matrix
\* returns CNPJ.format of it; find_matrix of what find_matrix returned is
\* the same string
C22_FindMatrixIdempotent ==
    /\ (out.op = "CNPJ.find_matrix" /\ RefAccepted(out))
       => LET b == CNPJ_validate_input_format(out.x, int_limit).v IN
          SubSeq(b, 9, 12) = <<48, 48, 48, 49>>
          => /\ out.r = Ret(RefCnpjFormat(b))
             /\ out.r = CNPJ_format(out.x, int_limit)
    /\ (out.op = "CNPJ.find_matrix" /\ out.was.op = "CNPJ.find_matrix")
       => out.r = out.was.r

\* find_matrix of the branch "12ABC34501DE35" gave "12.ABC.345/0001-88",
\* and find_matrix of that has returned the same
C22_Witness ==
    /\ out.op = "CNPJ.find_matrix" /\ out.was.op = "CNPJ.find_matrix"
    /\ out.was.x = PyStr(ValidAlnumCnpj)
    /\ out.r = Ret(<<49,50,46,65,66,67,46,51,52,53,47,48,48,48,49,45,56,56>>)
    /\ out.r = out.was.r

C24_CallsRunOutsideTheLock ==
    \A t \in Threads :
        th[t].pc = "call" => (lock # t /\ th[t].nstamp < th[t].nreq)

\* both threads are in their GET, neither has stamped, the lock is free
C24_Witness ==
    /\ \A t \in Threads : th[t].pc = "call" /\ th[t].nstamp = 0
    /\ lock = NoThread

\* C25: called on a string of 14 digits, either earlier validator returns
\* True exactly when CNPJ.validate returns something other than False
C25_EarlierValidatorsAgree ==
    (/\ out.op \in EarlierValidators
     /\ out.x.ty = "str"
     /\ Len(out.x.s) = 14
     /\ IsDigitStr(out.x.s))
    => (out.r = Ret(PyTrue) <=> CNPJ_validate(out.x, int_limit) # Ret(PyFalse))

\* the partials a check-digit calculator is specified on: 9 or 10 digits
\* for a CPF, 12 or 13 digits or upper-case letters for a CNPJ
LegalLengths(op) == IF op = "CPF._calculate_digit" THEN {9, 10} ELSE {12, 13}
LegalPartial(c) ==
    /\ Len(c.x.s) \in LegalLengths(c.op)
    /\ IF c.op = "CPF._calculate_digit" THEN AllChars(c.x.s, IsAsciiDigit)
                                         ELSE AllChars(c.x.s, IsAlnumUp)
\* the weights by length: 10..2, 11..2; 5,4,3,2,9,8,7,6,5,4,3,2 and that
\* sequence after a 6
WeightsOf(op, n) ==
    IF op = "CPF._calculate_digit"
    THEN (IF n = 9 THEN <<10, 9, 8, 7, 6, 5, 4, 3, 2>>
                   ELSE <<11, 10, 9, 8, 7, 6, 5, 4, 3, 2>>)
    ELSE (IF n = 12 THEN <<5, 4, 3, 2, 9, 8, 7, 6, 5, 4, 3, 2>>
                    ELSE <<6, 5, 4, 3, 2, 9, 8, 7, 6, 5, 4, 3, 2>>)
\* the error each class raises for a malformed partial
FormatErrorOf(op) ==
    IF op = "CPF._calculate_digit" THEN "CPFValidationError" ELSE "ValueError"

InGuardedCall == {"enter", "sleep", "call", "wait429", "exit"}

\* the step by which a guarded call of thread t hands control back: to the
\* caller of investigate, or to the frame that made the recursive call
Returns(t) ==
    /\ th[t].pc \in InGuardedCall
    /\ \/ th'[t].pc = "done"
       \/ th'[t].frame.retry_count < th[t].frame.retry_count

\* C28: a guarded call hands control back only in the step that follows
\* the wrapped function's return or raise, and that step writes the
\* current time into last_call_end with the lock free before and after,
\* counts one stamp, and leaves what the function returned or raised as
\* it was
C28_EveryCallEndsStamped ==
    [][\A t \in Threads :
         Returns(t)
         => /\ th[t].pc = "exit"
            /\ lock = NoThread /\ lock' = NoThread
            /\ last_call_end' = now
            /\ th'[t].nstamp = th[t].nstamp + 1
            /\ th'[t].pending = th[t].pending]_vars

\* a guarded call that raised has ended: the exception is with the caller,
\* the stamp is the current time and the lock is free
C28_Witness ==
    \E t \in Threads :
        /\ th[t].pc = "done"
        /\ IsRaise(th[t].pending)
        /\ th[t].nstamp = th[t].nreq /\ th[t].nstamp > 0
        /\ last_call_end = now
        /\ lock = NoThread

\* C30: last_call_end never decreases, and it changes only in the step
\* that ends a guarded call, to the time of that step; nested retries
\* change it once per nesting level
C30_StampMonotonic ==
    [][/\ last_call_end' >= last_call_end
       /\ last_call_end' # last_call_end
          => /\ last_call_end' = now
             /\ \E t \in Threads :
                  /\ th[t].pc = "exit"
                  /\ th'[t].nstamp = th[t].nstamp + 1]_vars

\* a thread has ended a call and its nested retry, stamping twice, the
\* second time later than the first call of the other thread ended
C30_Witness ==
    \E t \in Threads :
        /\ th[t].pc = "done"
        /\ th[t].nstamp = 2
        /\ last_call_end = now
        /\ last_call_end > StartTime

\* C29: the lock is held by a thread only while it sleeps in the limiter,
\* never while it runs the wrapped function or its 429 wait, and every
\* thread that has invoked the wrapper, a nested 429 retry included,
\* eventually begins the wrapped function
C29_NoDeadlock ==
    /\ [](\A t \in Threads : lock = t => th[t].pc = "sleep")
    /\ \A t \in Threads : (th[t].pc = "enter") ~> (th[t].pc = "call")

\* a nested 429 retry has taken the lock, slept under it, and begun its GET
C29_Witness ==
    \E t \in Threads :
        /\ th[t].pc = "call"
        /\ th[t].frame.retry_count = 1
        /\ th[t].nlsleep > 0
        /\ lock = NoThread

=============================================================================
